---- MODULE Spec2Model ----
(***************************************************************************)
(* Model of the HTML placeholder-resolution and repair pipeline of app.py: *)
(* fill_images (normalizer, substitution, resolver, final cleanup,         *)
(* aggressive pass), validate_and_repair_html, and the /generate and       *)
(* /update flows that call them.                                           *)
(*                                                                         *)
(* Text is a sequence of lexemes (TLA+ strings).  The concatenation of the *)
(* lexemes of a document is the text the code sees; each lexeme is either  *)
(* a single delimiter character or a word that no pattern of the code can  *)
(* match part of.  A regular expression of the code is a tree over lexeme  *)
(* classes, matched with the backtracking priority of Python's re module.  *)
(***************************************************************************)
EXTENDS Integers, Sequences, FiniteSets, TLC

VARIABLES
    pc,        \* position in fill_images / the calling flow
    html,      \* the text buffer
    uploaded,  \* uploaded_images: set of labels (token sequences) with a source
    hint,      \* style_image_hint: <<>> (empty) or a token sequence
    env,       \* process environment: HF_AVAILABLE, HF_TOKEN, UNSPLASH_ACCESS_KEY
    matches,   \* matches of the applied replacement pattern (re.sub)
    applied,   \* index of the applied replacement pattern, 0 when none
    repls,     \* replacement text computed so far, one per match
    rpc,       \* position inside repl for the current match
    calls,     \* backend calls made for the current match, in order
    input,     \* the html fill_images was called with
    flow       \* the caller: which handler runs, its attempt, stage log and response

vars == <<pc, html, uploaded, hint, env, matches, applied, repls, rpc, calls, input, flow>>

(***************************************************************************)
(* Regular expressions over lexemes                                        *)
(***************************************************************************)
Inf == 0 - 1

\* one lexeme of the set
In(S) == [k |-> "set", neg |-> FALSE, toks |-> S]
\* one lexeme not of the set
NotIn(S) == [k |-> "set", neg |-> TRUE, toks |-> S]
T(tok) == In({tok})
Seq_(subs) == [k |-> "seq", subs |-> subs]
Lits(toks) == Seq_([j \in 1..Len(toks) |-> T(toks[j])])
Rep(sub, min, max, lazy) == [k |-> "rep", sub |-> sub, min |-> min, max |-> max, lazy |-> lazy]
Star(sub) == Rep(sub, 0, Inf, FALSE)
Plus(sub) == Rep(sub, 1, Inf, FALSE)
Opt(sub) == Rep(sub, 0, 1, FALSE)
LazyStar(sub) == Rep(sub, 0, Inf, TRUE)
Grp(n, sub) == [k |-> "grp", n |-> n, sub |-> sub]
Bos == [k |-> "bos"]
Eos == [k |-> "eos"]
BackRef(n) == [k |-> "ref", n |-> n]

NoCaps == <<<<0, 0>>, <<0, 0>>, <<0, 0>>>>
Fail == [ok |-> FALSE, end |-> 0, caps |-> NoCaps]

\* Backtracking match of the continuation K (a sequence of nodes) against s
\* from position i; the first alternative that lets the rest match wins.
RECURSIVE Run(_, _, _, _), TryRep(_, _, _, _, _, _, _)
\* the counts c, c + step, ..., last of a repeated lexeme class, in the order
\* the engine tries them: the first that lets the rest K match wins
TryRep(s, K, i, caps, c, last, step) ==
    LET r == Run(s, K, i + c, caps)
    IN IF r.ok \/ c = last THEN r ELSE TryRep(s, K, i, caps, c + step, last, step)
Run(s, K, i, caps) ==
    IF Len(K) = 0 THEN [ok |-> TRUE, end |-> i, caps |-> caps]
    ELSE LET n == Head(K)
             R == Tail(K)
         IN CASE n.k = "set" ->
                    IF i <= Len(s) /\ ((s[i] \in n.toks) # n.neg)
                    THEN Run(s, R, i + 1, caps) ELSE Fail
              [] n.k = "seq" -> Run(s, n.subs \o R, i, caps)
              [] n.k = "rep" /\ n.sub.k = "set" ->
                    \* a repeated lexeme class: the longest count (the shortest
                    \* when lazy) that lets the rest match
                    LET stop == {j \in i..Len(s) : (s[j] \in n.sub.toks) = n.sub.neg}
                        run == IF stop = {} THEN Len(s) + 1 - i
                               ELSE (CHOOSE j \in stop : \A k \in stop : j <= k) - i
                        hi == IF n.max # Inf /\ n.max < run THEN n.max ELSE run
                    IN IF n.min > hi THEN Fail
                       ELSE IF n.lazy THEN TryRep(s, R, i, caps, n.min, hi, 1)
                       ELSE TryRep(s, R, i, caps, hi, n.min, 0 - 1)
              [] n.k = "rep" ->
                    LET more == Rep(n.sub, IF n.min > 0 THEN n.min - 1 ELSE 0,
                                    IF n.max = Inf THEN Inf ELSE n.max - 1, n.lazy)
                        take == Run(s, <<n.sub, more>> \o R, i, caps)
                        skip == Run(s, R, i, caps)
                    IN IF n.min > 0 THEN take
                       ELSE IF n.max = 0 THEN skip
                       ELSE IF n.lazy THEN (IF skip.ok THEN skip ELSE take)
                       ELSE (IF take.ok THEN take ELSE skip)
              [] n.k = "grp" ->
                    Run(s, <<n.sub, [k |-> "end", n |-> n.n, from |-> i]>> \o R, i, caps)
              [] n.k = "end" -> Run(s, R, i, [caps EXCEPT ![n.n] = <<n.from, i>>])
              [] n.k = "bos" -> IF i = 1 THEN Run(s, R, i, caps) ELSE Fail
              [] n.k = "eos" -> IF i = Len(s) + 1 THEN Run(s, R, i, caps) ELSE Fail
              [] n.k = "ref" ->
                    LET a == caps[n.n][1]
                        b == caps[n.n][2]
                        len == b - a
                    IN IF a > 0 /\ i + len - 1 <= Len(s)
                          /\ SubSeq(s, i, i + len - 1) = SubSeq(s, a, b - 1)
                       THEN Run(s, R, i + len, caps) ELSE Fail

\* re.search from position i: the leftmost match
RECURSIVE Search(_, _, _)
Search(s, re, i) ==
    IF i > Len(s) + 1 THEN [ok |-> FALSE, start |-> 0, end |-> 0, caps |-> NoCaps]
    ELSE LET r == Run(s, <<re>>, i, NoCaps)
         IN IF r.ok THEN [ok |-> TRUE, start |-> i, end |-> r.end, caps |-> r.caps]
            ELSE Search(s, re, i + 1)

\* re.finditer: the non-overlapping matches, left to right
RECURSIVE FindAll(_, _, _)
FindAll(s, re, i) ==
    LET m == Search(s, re, i)
    IN IF ~m.ok THEN <<>>
       ELSE <<m>> \o FindAll(s, re, IF m.end > m.start THEN m.end ELSE m.end + 1)

\* m.group(n)
Group(s, m, n) == SubSeq(s, m.caps[n][1], m.caps[n][2] - 1)

\* re.sub given the matches and the replacement of each (rs[j] for ms[j])
RECURSIVE Assemble(_, _, _, _, _)
Assemble(s, ms, rs, j, i) ==
    IF j > Len(ms) THEN SubSeq(s, i, Len(s))
    ELSE SubSeq(s, i, ms[j].start - 1) \o rs[j] \o Assemble(s, ms, rs, j + 1, ms[j].end)

Contains(s, re) == Search(s, re, 1).ok

(***************************************************************************)
(* Lexeme classes                                                          *)
(***************************************************************************)
\* lexemes that are whitespace (\s)
WS == {" ", "\n"}
S_ == In(WS)
\* . matches everything but a newline
Dot == NotIn({"\n"})
\* lexemes of more than one character that open or close an element
OpenToks ==
    {"<div class=\"card-hover", "<div class=\"flex space-x-4", "<div class=\"space-y-4",
     "<div class=\"flex justify-between", "<div class=\"bg-gray-200",
     "<div class=\"container", "<span class=\"px-4 py-2 bg-gray-100"}
WrapToks ==
    {"<div class='grid md:grid-cols-2 lg:grid-cols-3 gap-8'",
     "<div class='max-w-4xl mx-auto space-y-8'", "<div class='flex flex-wrap gap-3 mt-8'",
     "<div class='container"}
CloseToks == {"</div>", "</span>", "</section>", "</h2>", "</html>", "</HTML>"}
\* [^"], [^>], [^<], [^&]: the lexemes that hold the excluded character
NotQuote == NotIn({"\""} \cup OpenToks)
NotGt == NotIn({">", "ml>"} \cup CloseToks)
LtToks == {"<img", "<section", "<h2", "<p", "</p", "</ht"} \cup OpenToks \cup WrapToks \cup CloseToks
NotLt == NotIn(LtToks)
AmpToks == {"&lt;img", "&gt;", "&quot;", "&amp;"}
NotAmp == NotIn(AmpToks)
\* https?://
Scheme == In({"http://", "https://"})

\* str.strip()
RECURSIVE LStrip(_)
LStrip(s) == IF Len(s) > 0 /\ Head(s) \in WS THEN LStrip(Tail(s)) ELSE s
RECURSIVE RStrip(_)
RStrip(s) == IF Len(s) > 0 /\ s[Len(s)] \in WS THEN RStrip(SubSeq(s, 1, Len(s) - 1)) ELSE s
Strip(s) == RStrip(LStrip(s))

\* re.sub(re, lambda m: Repl(m), s) for a replacement that needs no state
SubWith(s, ms, Repl(_)) == Assemble(s, ms, [j \in 1..Len(ms) |-> Repl(ms[j])], 1, 1)

(***************************************************************************)
(* fill_images: the normalizer (app.py 845-883)                            *)
(***************************************************************************)
\* f'{{{{image: {label}}}}}'
Placeholder(label) == <<"{", "{", "image:", " ">> \o label \o <<"}", "}">>

ImgSrc == Seq_(<<T("<img"), Plus(S_), T("src="), T("\"")>>)
\* <img\s+src="&lt;img\s+src="
ImgSrcEscImgSrc == Seq_(<<ImgSrc, T("&lt;img"), Plus(S_), T("src="), T("\"")>>)
\* "\s+alt="([^"]+)">
AltTail(n) == Seq_(<<T("\""), Plus(S_), T("alt="), T("\""), Grp(n, Plus(NotQuote)), T("\""), T(">")>>)

\* 847: <img\s+src="<img\s+src="[^"]*"\s+alt="([^"]*)"[^>]*>"[^>]*>
NormDoubleNested ==
    Seq_(<<ImgSrc, T("<img"), Plus(S_), T("src="), T("\""), Star(NotQuote), T("\""),
           Plus(S_), T("alt="), T("\""), Grp(1, Star(NotQuote)), T("\""),
           Star(NotGt), T(">"), T("\""), Star(NotGt), T(">")>>)
\* 850: <img\s+src="https?://[^"]*"\s+alt="([^"]*)">
NormSimpleUrl ==
    Seq_(<<ImgSrc, Scheme, Star(NotQuote), T("\""), Plus(S_), T("alt="), T("\""),
           Grp(1, Star(NotQuote)), T("\""), T(">")>>)
\* 853: <img\s+src="&lt;img\s+src=&quot;([^&]*)&quot;[^&]*&amp;[^&]*&quot;[^>]*>"[^>]*>
NormEntityQuot ==
    Seq_(<<ImgSrc, T("&lt;img"), Plus(S_), T("src="), T("&quot;"), Grp(1, Star(NotAmp)),
           T("&quot;"), Star(NotAmp), T("&amp;"), Star(NotAmp), T("&quot;"),
           Star(NotGt), T(">"), T("\""), Star(NotGt), T(">")>>)
\* 854: &lt;img\s+src=&quot;https?://[^&]*&quot;[^>]*&gt;
NormEntityBare ==
    Seq_(<<T("&lt;img"), Plus(S_), T("src="), T("&quot;"), Scheme, Star(NotAmp),
           T("&quot;"), Star(NotGt), T("&gt;")>>)
\* 857: <img\s+src="&lt;img\s+src="([^"]+)"\s+alt="([^"]+)"&gt;"\s+alt="([^"]+)">
NormEscapedExact ==
    Seq_(<<ImgSrcEscImgSrc, Grp(1, Plus(NotQuote)), T("\""), Plus(S_), T("alt="), T("\""),
           Grp(2, Plus(NotQuote)), T("\""), T("&gt;"), AltTail(3)>>)
\* 860: &lt;img\s+src="([^"]+)"\s+alt="([^"]+)"&gt;
NormEscapedInner ==
    Seq_(<<T("&lt;img"), Plus(S_), T("src="), T("\""), Grp(1, Plus(NotQuote)), T("\""),
           Plus(S_), T("alt="), T("\""), Grp(2, Plus(NotQuote)), T("\""), T("&gt;")>>)
\* 867: <img\s+src="&lt;img\s+src="([^"]*?)(?:&amp;[^&]*)*&quot;[^>]*&gt;"\s+alt="([^"]+)">
NormLinkedIn ==
    Seq_(<<ImgSrcEscImgSrc, Grp(1, LazyStar(NotQuote)),
           Star(Seq_(<<T("&amp;"), Star(NotAmp)>>)), T("&quot;"), Star(NotGt), T("&gt;"),
           AltTail(2)>>)
\* 873: <img\s+src="&lt;img\s+src="([^"]*)&quot;[^>]*&gt;"\s+alt="([^"]+)">
NormQuotEnd ==
    Seq_(<<ImgSrcEscImgSrc, Grp(1, Star(NotQuote)), T("&quot;"), Star(NotGt), T("&gt;"),
           AltTail(2)>>)
\* 877: <img\s+src="&lt;img\s+src="([^"]*https://media\.licdn\.com[^"]*)\&quot;[^>]*&gt;"\s+alt="([^"]+)">
NormLicdn ==
    Seq_(<<ImgSrcEscImgSrc,
           Grp(1, Seq_(<<Star(NotQuote), T("https://"), T("media.licdn.com"), Star(NotQuote)>>)),
           T("&quot;"), Star(NotGt), T("&gt;"), AltTail(2)>>)
\* 880: <img\s+src="&lt;img\s+src="[^"]*&quot;[^>]*&gt;"\s+alt="([^"]+)">
NormAnyQuot ==
    Seq_(<<ImgSrcEscImgSrc, Star(NotQuote), T("&quot;"), Star(NotGt), T("&gt;"), AltTail(1)>>)
\* 883: <img\s+src="&lt;img\s+src="[^"]*"[^>]*&gt;"\s+alt="([^"]+)">
NormProperClose ==
    Seq_(<<ImgSrcEscImgSrc, Star(NotQuote), T("\""), Star(NotGt), T("&gt;"), AltTail(1)>>)

\* one normalizer substitution: every match becomes {{image: <group g>}}
NormSub(s, re, g) ==
    LET ms == FindAll(s, re, 1)
        R(m) == Placeholder(Group(s, m, g))
    IN SubWith(s, ms, R)
\* 854: every match becomes {{image: restaurant-interior}}
NormSubFixed(s, re) ==
    LET ms == FindAll(s, re, 1)
        R(m) == Placeholder(<<"restaurant-interior">>)
    IN SubWith(s, ms, R)

\* lines 845-883, in the order of the code: the pattern and the group that
\* becomes the label (0: the fixed label of line 854)
NormSteps ==
    << [re |-> NormDoubleNested, g |-> 1], [re |-> NormSimpleUrl, g |-> 1],
       [re |-> NormEntityQuot, g |-> 1], [re |-> NormEntityBare, g |-> 0],
       [re |-> NormEscapedExact, g |-> 2], [re |-> NormEscapedInner, g |-> 2],
       [re |-> NormLinkedIn, g |-> 2], [re |-> NormQuotEnd, g |-> 2],
       [re |-> NormLicdn, g |-> 2], [re |-> NormAnyQuot, g |-> 1],
       [re |-> NormProperClose, g |-> 1] >>
NormStep(s, st) == IF st.g = 0 THEN NormSubFixed(s, st.re) ELSE NormSub(s, st.re, st.g)
RECURSIVE NormFrom(_, _)
NormFrom(s, k) ==
    IF k > Len(NormSteps) THEN s
    ELSE LET t == NormStep(s, NormSteps[k])
         IN IF Len(t) >= 0 THEN NormFrom(t, k + 1) ELSE t
NormalizeImgTags(s) == NormFrom(s, 1)

(***************************************************************************)
(* fill_images: the replacement patterns (app.py 945-955)                  *)
(***************************************************************************)
\* \{\{image:\s*(.*?)\s*\}\}   (also {{image:\s*(.*?)\s*}}: the same pattern to re)
DoubleBraces ==
    Seq_(<<Lits(<<"{", "{", "image:">>), Star(S_), Grp(1, LazyStar(Dot)), Star(S_),
           Lits(<<"}", "}">>)>>)
\* \{image:\s*(.*?)\s*\}
SingleBrace ==
    Seq_(<<Lits(<<"{", "image:">>), Star(S_), Grp(1, LazyStar(Dot)), Star(S_), T("}")>>)
\* image:\s*(.*?)\s*
JustImage == Seq_(<<T("image:"), Star(S_), Grp(1, LazyStar(Dot)), Star(S_)>>)
\* src="image:\s*(.*?)"
SrcJustImage ==
    Seq_(<<Lits(<<"src=", "\"", "image:">>), Star(S_), Grp(1, LazyStar(Dot)), T("\"")>>)
\* src="<pattern>"
InSrc(re) == Seq_(<<Lits(<<"src=", "\"">>), re, T("\"")>>)

replacement_patterns ==
    <<InSrc(DoubleBraces), InSrc(DoubleBraces), InSrc(SingleBrace), SrcJustImage,
      DoubleBraces, DoubleBraces, SingleBrace, JustImage>>

\* the list searched from its end: the last pattern with a match
FirstMatching_Last(s) ==
    LET hit == {k \in 1..Len(replacement_patterns) : Contains(s, replacement_patterns[k])}
    IN IF hit = {} THEN 0 ELSE CHOOSE k \in hit : \A j \in hit : k >= j

\* lines 957-963: the first pattern with a match, 0 when none has one
FirstMatching(s) ==
    LET hit == {k \in 1..Len(replacement_patterns) : Contains(s, replacement_patterns[k])}
    IN IF hit = {} THEN 0 ELSE CHOOSE k \in hit : \A j \in hit : k <= j

(***************************************************************************)
(* fill_images.repl and the image backends (app.py 617-771, 912-943)       *)
(***************************************************************************)
\* "profile" in label.lower() or "avatar" in ... or "photo" in ...: the lexemes
\* that contain one of the three words
ProfileWords == {"profile", "avatar", "photo", "photo-", "picsum.photos/seed/"}
IsProfileLabel(label) == \E j \in 1..Len(label) : label[j] \in ProfileWords

\* f'src="{photo}"'
SrcAttr(photo) == <<"src=", "\"">> \o photo \o <<"\"">>
\* a placeholder URL that is not seeded by the label
Picsum_Unseeded(label, size) == <<"https://", "picsum.photos/seed/", "random", size>>
\* f"https://picsum.photos/seed/{label}/400/400" and .../800/500
Picsum(label, size) == <<"https://", "picsum.photos/seed/">> \o label \o <<size>>
PicsumFor(label) == Picsum(label, IF IsProfileLabel(label) THEN "/400/400" ELSE "/800/500")

\* the prompt repl passes to the generation chain (lines 925-927, 937-939)
PromptFor(label, h) ==
    [kind |-> IF IsProfileLabel(label) THEN "headshot" ELSE "label", label |-> label, style |-> h]

\* what a generation client can answer (lines 691-714, 748-771)
GenOutcomes == {"bytes", "empty_bytes", "not_bytes", "raises"}
\* isinstance(response, bytes), lines 702 and 759
GenSucceeds(outcome) == outcome \in {"bytes", "empty_bytes"}
\* f"data:image/png;base64,{image_b64}"; the payload of empty bytes is empty
DataUri(outcome) ==
    IF outcome = "bytes" THEN <<"data:image/png;base64,", "iVBORw0KGgo=">>
    ELSE <<"data:image/png;base64,">>
\* what the Unsplash request can answer (lines 646-656)
UnsplashOutcomes == {"url", "empty_url", "not_ok", "raises"}
UnsplashResult(outcome) ==
    IF outcome = "url" THEN <<"https://", "images.unsplash.com/", "photo-", "1">> ELSE <<>>

\* generate_flux_image without its except clause
FluxNext_Uncaught(o) ==
    IF o = "raises" THEN "raised" ELSE IF o \in {"bytes", "empty_bytes"} THEN "back" ELSE "sd"
\* where generate_flux_image goes on an answer: return the data URI (706), or call
\* generate_stable_diffusion_image on a non-bytes answer (709) and on an
\* exception (711-714)
FluxNext(o) == IF GenSucceeds(o) THEN "back" ELSE "sd"
\* generate_stable_diffusion_image going on to Unsplash whatever its client answered
SDNext_Always(o) == "unsplash"
\* generate_stable_diffusion_image: return (763), or fetch_unsplash (766, 768-771)
SDNext(o) == IF GenSucceeds(o) THEN "back" ELSE "unsplash"
\* fetch_unsplash returns the url (651) or "" (653-656); the exception is caught
UnsplashNext(o) == "back"

Idle == [at |-> "idle", phase |-> 0, res |-> <<>>]
\* the label of the match repl is working on
CurLabel == Strip(Group(html, matches[Len(repls) + 1], 1))

(***************************************************************************)
(* fill_images: final cleanup and aggressive pass (app.py 967-986)         *)
(***************************************************************************)
\* <img\s+src="&lt;img[^>]*>"[^>]*>
CleanupNested == Seq_(<<ImgSrc, T("&lt;img"), Star(NotGt), T(">"), T("\""), Star(NotGt), T(">")>>)
\* &lt;img[^>]*&gt;
CleanupEntity == Seq_(<<T("&lt;img"), Star(NotGt), T("&gt;")>>)
Delete(s, re) ==
    LET R(m) == <<>> IN SubWith(s, FindAll(s, re, 1), R)
FinalCleanupOf(s) ==
    LET t == Delete(s, CleanupNested)
    IN IF Len(t) >= 0 THEN Delete(t, CleanupEntity) ELSE t

\* \{\{image:.*?\}\}  (also {{image:.*?}}) and \{image:.*?\}
RemainingDouble == Seq_(<<Lits(<<"{", "{", "image:">>), LazyStar(Dot), Lits(<<"}", "}">>)>>)
RemainingSingle == Seq_(<<Lits(<<"{", "image:">>), LazyStar(Dot), T("}")>>)
remaining(s) == Contains(s, RemainingDouble) \/ Contains(s, RemainingSingle)

\* \{?{image:\s*(.*?)\s*\}?
AggressiveRe ==
    Seq_(<<Opt(T("{")), Lits(<<"{", "image:">>), Star(S_), Grp(1, LazyStar(Dot)), Star(S_),
           Opt(T("}"))>>)
\* f'<img src="https://picsum.photos/seed/{label}/800/500" alt="{label}">'
FallbackImg(label) ==
    <<"<img", " ">> \o SrcAttr(Picsum(label, "/800/500")) \o <<" ", "alt=", "\"">> \o label
        \o <<"\"", ">">>
AggressiveSub(s) ==
    LET R(m) == FallbackImg(Strip(Group(s, m, 1)))
    IN SubWith(s, FindAll(s, AggressiveRe, 1), R)
\* lines 973-988
AggressivePassOf(s) == IF remaining(s) THEN AggressiveSub(s) ELSE s

(***************************************************************************)
(* validate_and_repair_html (app.py 773-826)                               *)
(***************************************************************************)
\* . under re.DOTALL
AnyTok == NotIn({})
CloseDiv == T("</div>")

\* the lexeme of a markdown fence, three backquote characters (a backquote
\* cannot be written in a string of this module)
Fence == "FENCE"
\* ^\s*FENCE(?:html)?\s*  with re.IGNORECASE (line 781)
FenceOpen == Seq_(<<Bos, Star(S_), T(Fence), Opt(In({"html", "HTML"})), Star(S_)>>)
\* \s*FENCE\s*$ (line 782); the text was stripped, so $ is its end
FenceClose == Seq_(<<Star(S_), T(Fence), Star(S_), Eos>>)
\* only the opening fence is removed
StripFences_OpenOnly(s) == Delete(s, FenceOpen)
StripFences(s) ==
    LET t == Delete(s, FenceOpen)
    IN IF Len(t) >= 0 THEN Strip(Delete(t, FenceClose)) ELSE t

\* lines 787-792, re.DOTALL:
\* (<section[^>]*>.*?<h2[^>]*>Featured Projects</h2>.*?)
\* (<div class="card-hover[^>]*>.*?</div>)(.*?</section>)
GridRe ==
    Seq_(<<Grp(1, Seq_(<<T("<section"), Star(NotGt), T(">"), LazyStar(AnyTok),
                         T("<h2"), Star(NotGt), T(">"), T("Featured Projects"),
                         T("</h2>"), LazyStar(AnyTok)>>)),
           Grp(2, Seq_(<<T("<div class=\"card-hover"), Star(NotGt), T(">"), LazyStar(AnyTok),
                         CloseDiv>>)),
           Grp(3, Seq_(<<LazyStar(AnyTok), T("</section>")>>))>>)
GridOpen == <<"<div class='grid md:grid-cols-2 lg:grid-cols-3 gap-8'", ">">>
WrapGroup2(s, m, open) ==
    Group(s, m, 1) \o open \o Group(s, m, 2) \o <<"</div>">> \o Group(s, m, 3)
FixGrid(s) ==
    LET R(m) == WrapGroup2(s, m, GridOpen) IN SubWith(s, FindAll(s, GridRe, 1), R)

\* lines 795-800, re.DOTALL:
\* (<section[^>]*>.*?<h2[^>]*>Skills[^<]*</h2>.*?)
\* (<div class="space-y-4">\s*<div class="flex justify-between[^>]*>.*?</div>\s*
\*  <div class="bg-gray-200[^>]*>.*?</div>\s*</div>)(.*?</section>)
SkillsRe ==
    Seq_(<<Grp(1, Seq_(<<T("<section"), Star(NotGt), T(">"), LazyStar(AnyTok),
                         T("<h2"), Star(NotGt), T(">"), T("Skills"), Star(NotLt),
                         T("</h2>"), LazyStar(AnyTok)>>)),
           Grp(2, Seq_(<<Lits(<<"<div class=\"space-y-4", "\"", ">">>), Star(S_),
                         T("<div class=\"flex justify-between"), Star(NotGt), T(">"),
                         LazyStar(AnyTok), CloseDiv, Star(S_),
                         T("<div class=\"bg-gray-200"), Star(NotGt), T(">"),
                         LazyStar(AnyTok), CloseDiv, Star(S_), CloseDiv>>)),
           Grp(3, Seq_(<<LazyStar(AnyTok), T("</section>")>>))>>)
SkillsOpen == <<"<div class='max-w-4xl mx-auto space-y-8'", ">">>
FixSkills(s) ==
    LET R(m) == WrapGroup2(s, m, SkillsOpen) IN SubWith(s, FindAll(s, SkillsRe, 1), R)

\* lines 803-807: (\s*<span class="px-4 py-2 bg-gray-100[^>]*>[^<]*</span>\s*)+
ChipsRe ==
    Plus(Grp(1, Seq_(<<Star(S_), T("<span class=\"px-4 py-2 bg-gray-100"), Star(NotGt), T(">"),
                       Star(NotLt), T("</span>"), Star(S_)>>)))
ChipsOpen == <<"<div class='flex flex-wrap gap-3 mt-8'", ">">>
\* one chip: <span class="px-4 py-2 bg-gray-100[^>]*>[^<]*</span>
ChipRe ==
    Seq_(<<T("<span class=\"px-4 py-2 bg-gray-100"), Star(NotGt), T(">"), Star(NotLt), T("</span>")>>)
\* every chip gets a wrapper of its own
FixChips_Each(s) ==
    LET R(m) == ChipsOpen \o SubSeq(s, m.start, m.end - 1) \o <<"</div>">>
    IN SubWith(s, FindAll(s, ChipRe, 1), R)
FixChips(s) ==
    LET R(m) == ChipsOpen \o SubSeq(s, m.start, m.end - 1) \o <<"</div>">>
    IN SubWith(s, FindAll(s, ChipsRe, 1), R)

\* lines 810-814: (<div class="card-hover[^>]*>.*?</div>)
\* (\s*<div class="flex space-x-4">.*?</div>\s*</div>\s*</div>); the replacement
\* is group 1 followed by group 2
CardsRe ==
    Seq_(<<Grp(1, Seq_(<<T("<div class=\"card-hover"), Star(NotGt), T(">"), LazyStar(Dot),
                         CloseDiv>>)),
           Grp(2, Seq_(<<Star(S_), Lits(<<"<div class=\"flex space-x-4", "\"", ">">>),
                         LazyStar(Dot), CloseDiv, Star(S_), CloseDiv, Star(S_), CloseDiv>>))>>)
\* a replacement that keeps the card and drops what follows it
FixCards_CardOnly(s) ==
    LET R(m) == Group(s, m, 1) IN SubWith(s, FindAll(s, CardsRe, 1), R)
FixCards(s) ==
    LET R(m) == Group(s, m, 1) \o Group(s, m, 2) IN SubWith(s, FindAll(s, CardsRe, 1), R)

\* lines 817-821: (<div class=['"]container[^>]*>)(\s*\1)+  ->  \1
ContainerRe ==
    Seq_(<<Grp(1, Seq_(<<In({"<div class=\"container", "<div class='container"}),
                         Star(NotGt), T(">")>>)),
           Plus(Grp(2, Seq_(<<Star(S_), BackRef(1)>>)))>>)
FixContainers(s) ==
    LET R(m) == Group(s, m, 1) IN SubWith(s, FindAll(s, ContainerRe, 1), R)

\* line 824: (</div>){4,}  ->  </div></div></div>
MinClosings == 4
ClosingsRe == Rep(Grp(1, CloseDiv), MinClosings, Inf, FALSE)
ThreeClosings == <<"</div>", "</div>", "</div>">>
FixClosings(s) ==
    LET R(m) == ThreeClosings IN SubWith(s, FindAll(s, ClosingsRe, 1), R)

RepairSteps == <<"grid", "skills", "chips", "cards", "containers", "closings">>
RepairStep(s, st) ==
    CASE st = "grid" -> FixGrid(s)
      [] st = "skills" -> FixSkills(s)
      [] st = "chips" -> FixChips(s)
      [] st = "cards" -> FixCards(s)
      [] st = "containers" -> FixContainers(s)
      [] st = "closings" -> FixClosings(s)
RECURSIVE RepairFrom(_, _)
RepairFrom(s, k) ==
    IF k > Len(RepairSteps) THEN s
    ELSE LET t == RepairStep(s, RepairSteps[k])
         IN IF Len(t) >= 0 THEN RepairFrom(t, k + 1) ELSE t

\* validate_and_repair_html without the guard of line 775
Repair_Unguarded(s) ==
    LET t == StripFences(Strip(s))
    IN IF Len(t) >= 0 THEN Strip(RepairFrom(t, 1)) ELSE t
validate_and_repair_html(s) ==
    IF Strip(s) = <<>> THEN s
    ELSE LET t == StripFences(Strip(s))
         IN IF Len(t) >= 0 THEN Strip(RepairFrom(t, 1)) ELSE t

(***************************************************************************)
(* Inputs                                                                  *)
(***************************************************************************)
\* a document is the concatenation of at most MaxFrags fragments
MaxFrags == 2

Labels == {<<"a">>, <<"profile">>}
DD(l) == <<"{", "{", "image:", " ">> \o l \o <<"}", "}">>
D1(l) == <<"{", "image:", " ">> \o l \o <<"}">>
ImgTag(src) == <<"<img", " ", "src=", "\"">> \o src \o <<"\"", ">">>
ImgAlt(src, alt) == <<"<img", " ", "src=", "\"">> \o src \o <<"\"", " ", "alt=", "\"">> \o alt \o <<"\"", ">">>
Url == <<"https://", "x/y.png">>

Fragments ==
    {ImgTag(DD(l)) : l \in Labels} \cup {DD(l) : l \in Labels}
    \cup { ImgTag(D1(<<"a">>)),
           D1(<<"a">>),
           <<"{", "{", "image:", " ", "a", "\n", "}", "}">>,
           ImgTag(ImgAlt(Url, <<"profile">>)),
           ImgAlt(<<"&lt;img", " ", "src=", "\"">> \o Url \o <<"\"", " ", "alt=", "\"", "a", "\"", "&gt;">>, <<"a">>) }

\* the concatenations of at most n fragments of F
RECURSIVE ConcatsOf(_, _)
ConcatsOf(F, n) ==
    IF n = 0 THEN {<<>>}
    ELSE LET D == ConcatsOf(F, n - 1) IN D \cup {d \o f : d \in D, f \in F}
DocsOf(n) == ConcatsOf(Fragments, n)
Docs == DocsOf(MaxFrags)

\* documents for validate_and_repair_html: at most MaxRepairFrags fragments
MaxRepairFrags == 2
Chip == <<"<span class=\"px-4 py-2 bg-gray-100", "\"", ">", "Python", "</span>">>
Card == <<"<div class=\"card-hover", "\"", ">", "x", "</div>">>
CardTail == <<"<div class=\"flex space-x-4", "\"", ">", "y", "</div>", "</div>", "</div>">>
ProjectsSection ==
    <<"<section", ">", "<h2", ">", "Featured Projects", "</h2>">> \o Card \o <<"</section>">>
\* a chip with more classes, on a line of its own
ChipFlask ==
    <<"\n", "<span class=\"px-4 py-2 bg-gray-100", " ", "rounded-full", "\"", ">", "Flask", "</span>">>
\* a chip that stands in its wrapper already
WrappedChip == ChipsOpen \o Chip \o <<"</div>">>
\* k cards in a row, and a Featured Projects section that holds them directly
RECURSIVE Cards(_)
Cards(k) == IF k = 0 THEN <<>> ELSE Cards(k - 1) \o Card
ProjectsOf(k) ==
    <<"<section", ">", "<h2", ">", "Featured Projects", "</h2>">> \o Cards(k) \o <<"</section>">>
Paragraph == <<"<p", ">", "x", "</p", ">">>
SkillsSection ==
    <<"<section", ">", "<h2", ">", "Skills", "</h2>", "<div class=\"space-y-4", "\"", ">",
      "<div class=\"flex justify-between", "\"", ">", "a", "</div>",
      "<div class=\"bg-gray-200", "\"", ">", "b", "</div>", "</div>", "</section>">>
\* a Featured Projects section whose card stands in the grid container
WrappedProjects ==
    <<"<section", ">", "<h2", ">", "Featured Projects", "</h2>">> \o GridOpen \o Card
      \o <<"</div>", "</section>">>
\* a Skills section whose bar stands in the spacing container
WrappedSkills ==
    <<"<section", ">", "<h2", ">", "Skills", "</h2>">> \o SkillsOpen
      \o <<"<div class=\"space-y-4", "\"", ">",
            "<div class=\"flex justify-between", "\"", ">", "a", "</div>",
            "<div class=\"bg-gray-200", "\"", ">", "b", "</div>", "</div>", "</div>", "</section>">>
\* a card that holds three nested containers, each opened and closed
NestedCard ==
    <<"<div class=\"card-hover", "\"", ">", "<div class=\"flex space-x-4", "\"", ">",
      "<div class=\"bg-gray-200", "\"", ">", "<div class=\"flex justify-between", "\"", ">", "a",
      "</div>", "</div>", "</div>", "</div>">>
RepairFragments ==
    { Chip, Card, CardTail, ProjectsSection, SkillsSection,
      <<"<div class=\"container", "\"", ">">>,
      <<"</div>", "</div>">>,
      <<Fence, "html", "\n">>, <<"\n", Fence>>,
      <<" ">>, <<"x">>,
      ChipFlask, WrappedChip, ProjectsOf(2), Paragraph, ThreeClosings,
      WrappedProjects, WrappedSkills, NestedCard }
\* the fence lines a text can be wrapped in
FenceOpens == { <<Fence, "html", "\n">>, <<Fence, "\n">> }
FenceCloseLine == <<"\n", Fence>>
Fenced(open, d) == open \o d \o FenceCloseLine
\* the texts of at most MaxRepairFrags fragments, bare and between fence lines
RepairDocs ==
    LET P == ConcatsOf(RepairFragments, MaxRepairFrags)
    IN P \cup {Fenced(o, d) : o \in FenceOpens, d \in P}

\* uploaded_images: none, or the profile image
UploadSrc == <<"data:image/jpeg;base64,", "QUJD">>
Uploads == { [l \in {} |-> <<>>], [l \in {<<"profile">>} |-> UploadSrc] }
Hints == { <<>>, <<"watercolor">> }
\* HF_TOKEN is read only when HF_AVAILABLE
Envs == {e \in [hf : BOOLEAN, token : BOOLEAN, key : BOOLEAN] : e.hf \/ ~e.token}

(***************************************************************************)
(* fill_images as a state machine                                          *)
(***************************************************************************)
\* the caller's record: the handler, whether the prompt asks for a portfolio,
\* the attempt of the retry loop, the stages completed in this attempt, the
\* text validate_and_repair_html returned, the file written and the response
NoResponse == [status |-> 0, content |-> <<>>]
\* the call of the model: html_chunks, the chunks the provider has not been
\* asked for and how its stream ends, the runs of gather() in this attempt,
\* how the text was obtained and what the provider returned, and for the
\* request the failed streams, the calls of llm.invoke and whether one raised
NoLLM ==
    [chunks |-> <<>>, pending |-> <<>>, ending |-> "none", runs |-> 0, via |-> "none",
     answered |-> FALSE, content |-> <<>>, fallbacks |-> 0, invokes |-> 0, failed |-> FALSE]
\* the caller of the pipeline; log holds the stages the current attempt has
\* completed and earlier those of the attempts the except clause abandoned
Caller(kind, portfolio) ==
    [kind |-> kind, portfolio |-> portfolio, attempt |-> 0, log |-> <<>>,
     earlier |-> <<>>, repaired |-> <<>>, file |-> <<>>, response |-> NoResponse, llm |-> NoLLM]
\* a stage of the pipeline has run to its end
Staged(stage) == [flow EXCEPT !.log = Append(@, stage)]

Init ==
    /\ pc = "normalize"
    /\ html \in Docs
    /\ input = html
    /\ uploaded \in Uploads
    /\ hint \in Hints
    /\ env \in Envs
    /\ matches = <<>>
    /\ applied = 0
    /\ repls = <<>>
    /\ rpc = Idle
    /\ calls = <<>>
    /\ flow = Caller("fill_images", FALSE)

\* lines 845-883
Normalize ==
    /\ pc = "normalize"
    /\ html' = NormalizeImgTags(html)
    /\ pc' = "select"
    /\ flow' = Staged("normalize")
    /\ UNCHANGED <<uploaded, hint, env, matches, applied, repls, rpc, calls, input>>

\* lines 957-965: pick the first pattern that matches; re.sub then calls repl
\* once per match
SelectPattern ==
    /\ pc = "select"
    /\ applied' = FirstMatching(html)
    /\ IF applied' = 0
       THEN /\ pc' = "cleanup"
            /\ matches' = <<>>
       ELSE /\ pc' = "subst"
            /\ matches' = FindAll(html, replacement_patterns[applied'], 1)
    /\ repls' = <<>>
    /\ UNCHANGED <<html, uploaded, hint, env, rpc, calls, input, flow>>

\* lines 912-927, 937-940: repl is entered for the next match
ReplEnter ==
    /\ pc = "subst"
    /\ rpc.at = "idle"
    /\ Len(repls) < Len(matches)
    /\ IF CurLabel \in DOMAIN uploaded
       THEN /\ repls' = Append(repls, SrcAttr(uploaded[CurLabel]))
            /\ rpc' = Idle
       ELSE /\ repls' = repls
            /\ rpc' = [at |-> "flux", phase |-> 1, res |-> <<>>]
    /\ calls' = <<>>
    /\ UNCHANGED <<pc, html, uploaded, hint, env, matches, applied, input, flow>>

Logged(fn, ok) ==
    Append(calls, [fn |-> fn, ok |-> ok, match |-> Len(repls) + 1,
                   prompt |-> PromptFor(CurLabel, hint)])

\* an exception that leaves a backend function leaves repl, re.sub and fill_images
AfterCall(nxt) == IF nxt = "raised" THEN "raised" ELSE pc

\* generate_flux_image, lines 658-714
GenerateFlux ==
    /\ pc = "subst"
    /\ rpc.at = "flux"
    /\ IF ~env.hf \/ ~env.token
       THEN /\ rpc' = [rpc EXCEPT !.at = "sd"]
            /\ calls' = calls
            /\ pc' = pc
       ELSE \E o \in GenOutcomes :
            /\ calls' = Logged("flux", GenSucceeds(o))
            /\ rpc' = [rpc EXCEPT !.at = FluxNext(o),
                                  !.res = IF GenSucceeds(o) THEN DataUri(o) ELSE <<>>]
            /\ pc' = AfterCall(FluxNext(o))
    /\ UNCHANGED <<html, uploaded, hint, env, matches, applied, repls, input, flow>>

\* generate_stable_diffusion_image, lines 716-771
GenerateSD ==
    /\ pc = "subst"
    /\ rpc.at = "sd"
    /\ IF ~env.hf
       THEN /\ rpc' = [rpc EXCEPT !.at = "unsplash"]
            /\ calls' = calls
            /\ pc' = pc
       ELSE \E o \in GenOutcomes :
            /\ calls' = Logged("sd", GenSucceeds(o))
            /\ rpc' = [rpc EXCEPT !.at = SDNext(o),
                                  !.res = IF GenSucceeds(o) THEN DataUri(o) ELSE <<>>]
            /\ pc' = AfterCall(SDNext(o))
    /\ UNCHANGED <<html, uploaded, hint, env, matches, applied, repls, input, flow>>

\* fetch_unsplash, lines 617-656
FetchUnsplash ==
    /\ pc = "subst"
    /\ rpc.at = "unsplash"
    /\ IF ~env.key
       THEN /\ rpc' = [rpc EXCEPT !.at = "back", !.res = <<>>]
            /\ calls' = calls
            /\ pc' = pc
       ELSE \E o \in UnsplashOutcomes :
            /\ calls' = Logged("unsplash", UnsplashResult(o) # <<>>)
            /\ rpc' = [rpc EXCEPT !.at = UnsplashNext(o), !.res = UnsplashResult(o)]
            /\ pc' = AfterCall(UnsplashNext(o))
    /\ UNCHANGED <<html, uploaded, hint, env, matches, applied, repls, input, flow>>

\* the "or" chains of repl, lines 928-932 and 940-943
ReplReturn ==
    /\ pc = "subst"
    /\ rpc.at = "back"
    /\ IF rpc.res # <<>>
       THEN /\ repls' = Append(repls, SrcAttr(rpc.res))
            /\ rpc' = Idle
       ELSE IF IsProfileLabel(CurLabel) /\ rpc.phase = 1
       THEN /\ repls' = repls
            /\ rpc' = [at |-> "sd", phase |-> 2, res |-> <<>>]
       ELSE /\ repls' = Append(repls, SrcAttr(PicsumFor(CurLabel)))
            /\ rpc' = Idle
    /\ UNCHANGED <<pc, html, uploaded, hint, env, matches, applied, calls, input, flow>>

\* line 961: re.sub returns the text with every match replaced
SubstDone ==
    /\ pc = "subst"
    /\ rpc.at = "idle"
    /\ Len(repls) = Len(matches)
    /\ html' = Assemble(html, matches, repls, 1, 1)
    /\ pc' = "cleanup"
    /\ calls' = <<>>
    /\ UNCHANGED <<uploaded, hint, env, matches, applied, repls, rpc, input, flow>>

\* lines 967-971
FinalCleanup ==
    /\ pc = "cleanup"
    /\ html' = FinalCleanupOf(html)
    /\ pc' = "aggressive"
    /\ UNCHANGED <<uploaded, hint, env, matches, applied, repls, rpc, calls, input, flow>>

\* lines 973-988
AggressivePass ==
    /\ pc = "aggressive"
    /\ html' = AggressivePassOf(html)
    /\ pc' = "done"
    /\ flow' = Staged("substitute")
    /\ UNCHANGED <<uploaded, hint, env, matches, applied, repls, rpc, calls, input>>

Next ==
    \/ Normalize
    \/ SelectPattern
    \/ ReplEnter
    \/ GenerateFlux
    \/ GenerateSD
    \/ FetchUnsplash
    \/ ReplReturn
    \/ SubstDone
    \/ FinalCleanup
    \/ AggressivePass

Spec == Init /\ [][Next]_vars

(***************************************************************************)
(* validate_and_repair_html called on its own output                       *)
(***************************************************************************)
InitRepair ==
    /\ pc = "raw"
    /\ html \in RepairDocs
    /\ input = html
    /\ uploaded = [l \in {} |-> <<>>]
    /\ hint = <<>>
    /\ env = [hf |-> FALSE, token |-> FALSE, key |-> FALSE]
    /\ matches = <<>>
    /\ applied = 0
    /\ repls = <<>>
    /\ rpc = Idle
    /\ calls = <<>>
    /\ flow = Caller("validate_and_repair_html", FALSE)

\* validate_and_repair_html(html), lines 773-826
RepairCall ==
    /\ pc = "raw"
    /\ html' = validate_and_repair_html(html)
    /\ pc' = "once"
    /\ flow' = [Staged("repair") EXCEPT !.repaired = html']
    /\ UNCHANGED <<uploaded, hint, env, matches, applied, repls, rpc, calls, input>>

\* validate_and_repair_html applied to what it returned
RepairAgain ==
    /\ pc = "once"
    /\ html' = validate_and_repair_html(html)
    /\ pc' = "twice"
    /\ flow' = Staged("repair")
    /\ UNCHANGED <<uploaded, hint, env, matches, applied, repls, rpc, calls, input>>

NextRepair == RepairCall \/ RepairAgain
SpecRepair == InitRepair /\ [][NextRepair]_vars

(***************************************************************************)
(* fill_images followed by validate_and_repair_html, on texts without      *)
(* placeholders and on the malformed image tags of lines 845-883           *)
(***************************************************************************)
\* a text is the concatenation of at most MaxShapeFrags of these fragments
MaxShapeFrags == 2
\* a CSS declaration that holds the characters "image:"
CssImage == <<"background-", "image:", " ", "url(x.png)", ";">>
\* <img src="&lt;img src=&quot;URL&quot; alt=&amp;a&quot;>" alt="b">
EntityQuotShape ==
    <<"<img", " ", "src=", "\"", "&lt;img", " ", "src=", "&quot;">> \o Url
      \o <<"&quot;", " ", "alt=", "&amp;", "a", "&quot;", ">", "\"", " ", "alt=", "\"", "b", "\"", ">">>
\* &lt;img src=&quot;URL&quot; alt=&quot;a&quot;&gt;
EntityBareShape ==
    <<"&lt;img", " ", "src=", "&quot;">> \o Url \o <<"&quot;", " ", "alt=", "&quot;", "a", "&quot;", "&gt;">>
\* <img src="&lt;img src="URL&amp;v=2&quot;&gt;" alt="a">
LinkedInShape ==
    <<"<img", " ", "src=", "\"", "&lt;img", " ", "src=", "\"">> \o Url
      \o <<"&amp;", "v=2", "&quot;", "&gt;", "\"", " ", "alt=", "\"", "a", "\"", ">">>
ShapeFragments ==
    { CssImage, <<"x">>, <<" ">>, <<"\n">>,
      ImgTag(ImgAlt(Url, <<"a">>)),
      ImgAlt(Url, <<"a">>),
      EntityQuotShape, EntityBareShape, LinkedInShape,
      ImgAlt(<<"&lt;img", " ", "src=", "\"">> \o Url \o <<"\"", " ", "alt=", "\"", "a", "\"", "&gt;">>, <<"b">>) }
ShapeDocs == ConcatsOf(ShapeFragments, MaxShapeFrags)
\* every backend configured, or none
ShapeEnvs == {e \in Envs : e.hf = e.token /\ e.token = e.key}

InitPipeline ==
    /\ pc = "normalize"
    /\ html \in ShapeDocs
    /\ input = html
    /\ uploaded \in Uploads
    /\ hint = <<>>
    /\ env \in ShapeEnvs
    /\ matches = <<>>
    /\ applied = 0
    /\ repls = <<>>
    /\ rpc = Idle
    /\ calls = <<>>
    /\ flow = Caller("pipeline", FALSE)

\* validate_and_repair_html(fill_images(html, ...))
RepairFilled ==
    /\ pc = "done"
    /\ flow.kind = "pipeline"
    /\ html' = validate_and_repair_html(html)
    /\ flow' = [Staged("repair") EXCEPT !.repaired = html']
    /\ pc' = "repaired"
    /\ UNCHANGED <<uploaded, hint, env, matches, applied, repls, rpc, calls, input>>

NextPipeline ==
    \/ Normalize
    \/ SelectPattern
    \/ ReplEnter
    \/ GenerateFlux
    \/ GenerateSD
    \/ FetchUnsplash
    \/ ReplReturn
    \/ SubstDone
    \/ FinalCleanup
    \/ AggressivePass
    \/ RepairFilled
SpecPipeline == InitPipeline /\ [][NextPipeline]_vars

(***************************************************************************)
(* The /generate and /update handlers (app.py 1316-1453, 1530-1597)        *)
(***************************************************************************)
\* max_retries = 2, line 1317
max_retries == 2

\* what the model returns: nothing, blank text, or a page
\* (Paragraph, Chip and the other fragments are defined with the inputs above)
UnsplashImg ==
    <<"<img", " ", "src=", "\"", "https://", "images.unsplash.com/", "photo-", "1", ".jpg",
      "\"", " ", "alt=", "\"", "a", "\"", ">">>
\* an Unsplash image whose URL has no file extension
UnsplashBare ==
    <<"<img", " ", "src=", "\"", "https://", "images.unsplash.com/", "photo-", "2",
      "\"", " ", "alt=", "\"", "b", "\"", ">">>
FlowDocs ==
    { <<>>, <<" ">>,
      ImgTag(DD(<<"a">>)) \o Chip,
      DD(<<"profile">>) \o ImgTag(DD(<<"profile">>)),
      ImgTag(ImgAlt(Url, <<"profile">>)),
      UnsplashImg \o <<"</div>", "</div>", "</div>", "</div>">>,
      UnsplashBare \o UnsplashImg,
      <<Fence, "html", "\n">> \o ImgTag(D1(<<"a">>)) \o <<"\n", Fence>> }
\* "".join(html_chunks)
RECURSIVE Join(_)
Join(cs) == IF cs = <<>> THEN <<>> ELSE Head(cs) \o Join(Tail(cs))
\* "</html>" in full_html.lower(): the tag in either case, in one lexeme or
\* cut in two by a chunk boundary
HasClosingRoot(text) ==
    \/ Contains(text, In({"</html>", "</HTML>"}))
    \/ Contains(text, Lits(<<"</ht", "ml>">>))
\* a gather() that never leaves its loop early
StreamStops_Never(text) == FALSE
\* lines 1344-1346 and 1548-1550: the break of gather()
StreamStops(text) == HasClosingRoot(text)

\* what llm.astream can yield: the contents of its chunks (a chunk without
\* content counts as ""), and whether the stream then ends, raises, or raises
\* a RuntimeError
Page == ImgTag(DD(<<"a">>)) \o Chip
Streams ==
    { [chunks |-> <<d>>, ending |-> "end"] : d \in FlowDocs }
    \cup { [chunks |-> <<Page, <<"</html>">>, <<"\n", "Done.">>>>, ending |-> "end"],
           [chunks |-> <<Paragraph \o <<"</ht">>, <<"ml>", "\n">>, <<"x">>>>, ending |-> "error"],
           [chunks |-> <<<<>>, <<"x", "</HTML>", "y">>, <<"z">>>>, ending |-> "runtime"],
           [chunks |-> <<<<>>, Paragraph>>, ending |-> "end"],
           [chunks |-> <<>>, ending |-> "error"],
           [chunks |-> <<Paragraph>>, ending |-> "error"],
           [chunks |-> <<>>, ending |-> "runtime"],
           [chunks |-> <<<<" ">>>>, ending |-> "runtime"] }
\* what llm.invoke can do: raise, return a string, or return a message object
InvokeOutcomes ==
    { [kind |-> "raises", content |-> <<>>] }
    \cup { [kind |-> k, content |-> d] : k \in {"str", "message"}, d \in FlowDocs }
\* str(message) of a message whose content is empty: the fields of the object
MessageRepr == <<"content=''", " ", "additional_kwargs={}", " ", "response_metadata={}">>
\* lines 1362-1363 and 1565-1566: generated_html.content or str(generated_html)
TextOf(o) ==
    IF o.kind = "message" /\ o.content = <<>> THEN MessageRepr ELSE o.content

\* lines 1393-1396: a keyword of the list is in the prompt and a profile image
\* was uploaded
WantsProfile == flow.portfolio /\ <<"profile">> \in DOMAIN uploaded
\* '{{image: profile}}' in generated_html or '{{image:profile}}' in generated_html
HasProfilePlaceholder(s) ==
    \/ Contains(s, Lits(<<"{", "{", "image:", " ", "profile", "}", "}">>))
    \/ Contains(s, Lits(<<"{", "{", "image:", "profile", "}", "}">>))
\* src="https://images\.unsplash\.com/photo-[^"]*\.(?:jpg|jpeg|png)"[^>]*>
UnsplashSrcRe ==
    Seq_(<<Lits(<<"src=", "\"", "https://", "images.unsplash.com/", "photo-">>), Star(NotQuote),
           In({".jpg", ".jpeg", ".png"}), T("\""), Star(NotGt), T(">")>>)
\* <img[^>]*src="https://images\.unsplash\.com/[^"]*"[^>]*>
UnsplashImgRe ==
    Seq_(<<T("<img"), Star(NotGt), Lits(<<"src=", "\"", "https://", "images.unsplash.com/">>),
           Star(NotQuote), T("\""), Star(NotGt), T(">")>>)
\* m.group(0)[m.group(0).find(">"):]
RECURSIVE FromFirstGt(_)
FromFirstGt(t) == IF t = <<>> \/ Head(t) = ">" THEN t ELSE FromFirstGt(Tail(t))
\* lines 1398-1414
InjectProfileOf(s) ==
    LET \* line 1402 is an f-string: its doubled braces are single in the text
        R1(m) == SrcAttr(<<"{", "image:", " ", "profile", "}">>)
                     \o FromFirstGt(SubSeq(s, m.start, m.end - 1))
        t == SubWith(s, FindAll(s, UnsplashSrcRe, 1), R1)
        R2(m) == <<"<img", " ">> \o SrcAttr(Placeholder(<<"profile">>))
                     \o <<" ", "alt=", "\"", "profile", "\"", ">">>
    IN IF Len(t) >= 0 THEN SubWith(t, FindAll(t, UnsplashImgRe, 1), R2) ELSE t

\* 1575: <img\s+src="&lt;img\s+src=&quot;[^&]*&quot;[^>]*>"[^>]*>
UpdEntityQuot ==
    Seq_(<<ImgSrc, T("&lt;img"), Plus(S_), T("src="), T("&quot;"), Star(NotAmp), T("&quot;"),
           Star(NotGt), T(">"), T("\""), Star(NotGt), T(">")>>)
\* lines 1573-1576
UpdateSteps ==
    << [re |-> NormDoubleNested, g |-> 1], [re |-> NormSimpleUrl, g |-> 1],
       [re |-> UpdEntityQuot, g |-> 0], [re |-> NormEntityBare, g |-> 0] >>
RECURSIVE UpdateFrom(_, _)
UpdateFrom(s, k) ==
    IF k > Len(UpdateSteps) THEN s
    ELSE LET t == NormStep(s, UpdateSteps[k])
         IN IF Len(t) >= 0 THEN UpdateFrom(t, k + 1) ELSE t
PreNormalizeOf(s) == UpdateFrom(s, 1)

\* a handler that repairs the text it has prepared before filling its images
PipelineEntry_RepairFirst == "done"
\* the position a handler goes to once its own preparation of the text is
\* done: the call of fill_images (lines 1419 and 1581)
PipelineEntry == "normalize"

Responded(status, content) ==
    [flow EXCEPT !.response = [status |-> status, content |-> content]]

InitFlow ==
    /\ pc = "llm"
    /\ html = <<>>
    /\ input = <<>>
    /\ uploaded \in Uploads
    /\ hint \in Hints
    /\ env \in ShapeEnvs
    /\ matches = <<>>
    /\ applied = 0
    /\ repls = <<>>
    /\ rpc = Idle
    /\ calls = <<>>
    /\ flow \in {Caller("generate", b) : b \in BOOLEAN} \cup {Caller("update", FALSE)}

\* a handler that starts the attempt again when llm.invoke has raised
OnInvokeFailure_Retry == "llm"
\* lines 1357-1358 and 1560-1561: when llm.invoke raises, the handler returns
\* its error response
OnInvokeFailure == "responded"

\* lines 1338-1348 and 1542-1552: html_chunks = [] and gather() is started
StartStream ==
    /\ pc = "llm"
    /\ \E st \in Streams :
          flow' = [flow EXCEPT !.log = <<>>, !.repaired = <<>>,
                               !.llm = [@ EXCEPT !.chunks = <<>>, !.pending = st.chunks,
                                                 !.ending = st.ending, !.runs = 1,
                                                 !.via = "none", !.answered = FALSE,
                                                 !.content = <<>>]]
    /\ pc' = "stream"
    /\ html' = <<>>
    /\ matches' = <<>>
    /\ applied' = 0
    /\ repls' = <<>>
    /\ calls' = <<>>
    /\ UNCHANGED <<uploaded, hint, env, rpc, input>>

\* the text is handed on: generated_html = "".join(html_chunks), line 1352
HandOn(cs, rest) ==
    /\ flow' = [flow EXCEPT !.llm = [@ EXCEPT !.chunks = cs, !.pending = rest, !.via = "stream",
                                              !.answered = TRUE, !.content = Join(cs)]]
    /\ html' = Join(cs)
    /\ pc' = "check"

\* lines 1340-1346 and 1545-1550: one turn of the loop of gather()
StreamChunk ==
    /\ pc = "stream"
    /\ flow.llm.pending # <<>>
    /\ LET cs == Append(flow.llm.chunks, Head(flow.llm.pending))
           rest == Tail(flow.llm.pending)
       IN IF StreamStops(Join(cs))
          THEN HandOn(cs, rest)
          ELSE /\ flow' = [flow EXCEPT !.llm = [@ EXCEPT !.chunks = cs, !.pending = rest]]
               /\ html' = html
               /\ pc' = pc
    /\ UNCHANGED <<uploaded, hint, env, matches, applied, repls, rpc, calls, input>>

\* the stream is exhausted and gather() returns
StreamEnd ==
    /\ pc = "stream"
    /\ flow.llm.pending = <<>>
    /\ flow.llm.ending = "end"
    /\ HandOn(flow.llm.chunks, <<>>)
    /\ UNCHANGED <<uploaded, hint, env, matches, applied, repls, rpc, calls, input>>

\* lines 1347-1354 and 1551-1557: the stream raises. A RuntimeError out of
\* asyncio.run starts gather() once more on a new loop, with html_chunks as it
\* is; every other exception, and any exception of the second run, leads to
\* llm.invoke
StreamRaises ==
    /\ pc = "stream"
    /\ flow.llm.pending = <<>>
    /\ flow.llm.ending \in {"error", "runtime"}
    /\ IF flow.llm.ending = "runtime" /\ flow.llm.runs = 1
       THEN /\ \E st \in Streams :
                  flow' = [flow EXCEPT !.llm = [@ EXCEPT !.pending = st.chunks,
                                                         !.ending = st.ending, !.runs = 2]]
            /\ pc' = pc
       ELSE /\ flow' = [flow EXCEPT !.llm = [@ EXCEPT !.fallbacks = @ + 1]]
            /\ pc' = "invoke"
    /\ UNCHANGED <<html, uploaded, hint, env, matches, applied, repls, rpc, calls, input>>

\* lines 1355-1363 and 1558-1566: llm.invoke, and the text of what it returned
Invoke ==
    /\ pc = "invoke"
    /\ \E o \in InvokeOutcomes :
          IF o.kind = "raises"
          THEN /\ flow' = [(IF OnInvokeFailure = "responded" THEN Responded(500, <<>>) ELSE flow)
                              EXCEPT !.llm = [@ EXCEPT !.invokes = @ + 1, !.failed = TRUE]]
               /\ pc' = OnInvokeFailure
               /\ html' = html
          ELSE /\ flow' = [flow EXCEPT !.llm = [@ EXCEPT !.invokes = @ + 1, !.via = "invoke",
                                                         !.answered = TRUE,
                                                         !.content = o.content]]
               /\ html' = TextOf(o)
               /\ pc' = "check"
    /\ UNCHANGED <<uploaded, hint, env, matches, applied, repls, rpc, calls, input>>

\* the locals of the call of the model are dropped once its text is checked
Checked(f) ==
    [f EXCEPT !.llm = [@ EXCEPT !.chunks = <<>>, !.pending = <<>>, !.ending = "none",
                                !.runs = 0, !.via = "none"]]

\* a loop that runs once more than range(max_retries)
RetryAllowed_OnceMore(attempt) == attempt < max_retries
\* lines 1318, 1388 and 1451: the attempt is not the last of range(max_retries)
RetryAllowed(attempt) == attempt < max_retries - 1

\* line 1318, for attempt in range(max_retries): the position and the attempt
\* after "continue" or after the except clause has printed; past the last
\* attempt the loop is left and the function ends without a return statement
LoopPc(attempt) == IF attempt + 1 < max_retries THEN "llm" ELSE "exhausted"

\* lines 1386-1390 and 1569-1570: an empty answer is retried by /generate until
\* the last attempt and refused by /update
CheckEmpty ==
    /\ pc = "check"
    /\ IF Strip(html) # <<>>
       THEN /\ pc' = "prepare"
            /\ flow' = Checked(flow)
       ELSE IF flow.kind = "generate" /\ RetryAllowed(flow.attempt)
       THEN /\ pc' = LoopPc(flow.attempt)
            /\ flow' = Checked([flow EXCEPT !.attempt = @ + 1])
       ELSE /\ pc' = "responded"
            /\ flow' = Checked(Responded(500, <<>>))
    /\ UNCHANGED <<html, uploaded, hint, env, matches, applied, repls, rpc, calls, input>>

\* lines 1393-1415
InjectProfile ==
    /\ pc = "prepare"
    /\ flow.kind = "generate"
    /\ html' = IF WantsProfile /\ ~HasProfilePlaceholder(html) THEN InjectProfileOf(html) ELSE html
    /\ input' = html'
    /\ pc' = PipelineEntry
    /\ UNCHANGED <<uploaded, hint, env, matches, applied, repls, rpc, calls, flow>>

\* lines 1573-1576
PreNormalize ==
    /\ pc = "prepare"
    /\ flow.kind = "update"
    /\ html' = PreNormalizeOf(html)
    /\ input' = html'
    /\ pc' = PipelineEntry
    /\ UNCHANGED <<uploaded, hint, env, matches, applied, repls, rpc, calls, flow>>

\* lines 1424 and 1585, after fill_images has returned
RepairStage ==
    /\ pc = "done"
    /\ flow.kind \in {"generate", "update"}
    /\ html' = validate_and_repair_html(html)
    /\ flow' = [Staged("repair") EXCEPT !.repaired = html']
    /\ pc' = "respond"
    /\ UNCHANGED <<uploaded, hint, env, matches, applied, repls, rpc, calls, input>>

\* lines 1433-1453 and 1587-1597: /generate writes the file and answers, and an
\* exception of the write is retried until the last attempt; /update answers
Respond ==
    /\ pc = "respond"
    /\ \E written \in BOOLEAN :
          IF flow.kind = "update" \/ written
          THEN /\ flow' = [Responded(200, html) EXCEPT
                              !.file = IF flow.kind = "generate" THEN html ELSE @]
               /\ pc' = "responded"
          ELSE IF ~RetryAllowed(flow.attempt)
          THEN /\ flow' = Responded(500, <<>>)
               /\ pc' = "responded"
          ELSE /\ flow' = [flow EXCEPT !.attempt = @ + 1, !.earlier = @ \o flow.log,
                                        !.log = <<>>]
               /\ pc' = LoopPc(flow.attempt)
    /\ UNCHANGED <<html, uploaded, hint, env, matches, applied, repls, rpc, calls, input>>

NextFlow ==
    \/ StartStream
    \/ StreamChunk
    \/ StreamEnd
    \/ StreamRaises
    \/ Invoke
    \/ CheckEmpty
    \/ InjectProfile
    \/ PreNormalize
    \/ Normalize
    \/ SelectPattern
    \/ ReplEnter
    \/ GenerateFlux
    \/ GenerateSD
    \/ FetchUnsplash
    \/ ReplReturn
    \/ SubstDone
    \/ FinalCleanup
    \/ AggressivePass
    \/ RepairStage
    \/ Respond
SpecFlow == InitFlow /\ [][NextFlow]_vars

(***************************************************************************)
(* /generate: the uploaded-image map built from the reference files        *)
(* (app.py 1208-1270)                                                      *)
(***************************************************************************)
\* a request carries at most MaxFiles reference files
MaxFiles == 3
\* a reference file: an image (.jpg, .jpeg, .png, .gif), a file of another
\* type, or a part without filename
FileKinds == {"image", "other", "unnamed"}
RECURSIVE FileLists(_)
FileLists(n) ==
    IF n = 0 THEN {<<>>}
    ELSE LET L == FileLists(n - 1) IN L \cup {Append(l, k) : l \in L, k \in FileKinds}
\* str(idx) for the positions of a list
Digits == <<"1", "2", "3", "4", "5", "6">>
\* f'image-{idx}', line 1264
ImageLabel(idx) == <<"image-", Digits[idx]>>
\* the data URL of the file at position idx (its bytes are its own), line 1262
DataUrlOf(idx) == <<"data:image/png;base64,", Digits[idx]>>
\* lines 1264-1267: idx is the position in reference_files (enumerate from 1)
LabelFor(idx, files, up) ==
    IF idx = 1 /\ <<"profile">> \notin DOMAIN up THEN <<"profile">> ELSE ImageLabel(idx)
\* uploaded_images[label] = data_url
Stored(up, label, src) == [l \in DOMAIN up \cup {label} |-> IF l = label THEN src ELSE up[l]]

\* lines 1208-1241: uploaded_images holds the profile image when one was
\* supplied with the request
InitUpload ==
    /\ pc = "files"
    /\ html = <<>>
    /\ input = <<>>
    /\ uploaded \in Uploads
    /\ hint = <<>>
    /\ env = [hf |-> FALSE, token |-> FALSE, key |-> FALSE]
    /\ matches = <<>>
    /\ applied = 0
    /\ repls = <<>>
    /\ rpc = Idle
    /\ calls = <<>>
    /\ flow \in {[kind |-> "generate", files |-> fs, idx |-> 0, profile |-> uploaded] :
                    fs \in FileLists(MaxFiles)}

\* line 1244: no reference file came with the request
NoFiles ==
    /\ pc = "files"
    /\ flow.files = <<>>
    /\ pc' = "labelled"
    /\ UNCHANGED <<html, uploaded, hint, env, matches, applied, repls, rpc, calls, input, flow>>

\* lines 1250-1270: one turn of the loop over reference_files
StoreFile ==
    /\ pc = "files"
    /\ flow.idx < Len(flow.files)
    /\ LET idx == flow.idx + 1
       IN /\ uploaded' = IF flow.files[idx] = "image"
                          THEN Stored(uploaded, LabelFor(idx, flow.files, uploaded), DataUrlOf(idx))
                          ELSE uploaded
          /\ flow' = [flow EXCEPT !.idx = idx]
          /\ pc' = IF idx = Len(flow.files) THEN "labelled" ELSE pc
    /\ UNCHANGED <<html, hint, env, matches, applied, repls, rpc, calls, input>>

NextUpload == NoFiles \/ StoreFile
SpecUpload == InitUpload /\ [][NextUpload]_vars

(***************************************************************************)
(* /generate: the file written by concurrent requests (app.py 1433-1448)   *)
(***************************************************************************)
\* the requests served at the same time, one per worker thread
MaxWorkers == 2
\* the text a request has after validate_and_repair_html
WorkerDocs == {<<"x">>, Paragraph, Page}
\* lines 1434-1435: every request uses tempfile.gettempdir() / "generated_website.html"
output_file == "generated_website.html"
\* a write of text at offset 0 of a file that holds old
Overlay(old, text) == text \o SubSeq(old, Len(text) + 1, Len(old))

InitWorkers ==
    /\ pc = "serving"
    /\ html = <<>>
    /\ input = <<>>
    /\ uploaded = [l \in {} |-> <<>>]
    /\ hint = <<>>
    /\ env = [hf |-> FALSE, token |-> FALSE, key |-> FALSE]
    /\ matches = <<>>
    /\ applied = 0
    /\ repls = <<>>
    /\ rpc = Idle
    /\ calls = <<>>
    /\ flow \in {[kind |-> "generate", file |-> <<>>,
                   workers |-> [w \in 1..MaxWorkers |->
                                   [at |-> "open", generated_html |-> docs[w],
                                    response |-> [status |-> 0, content |-> <<>>, file_path |-> ""]]]] :
                    docs \in [1..MaxWorkers -> WorkerDocs]}

Worker(w, at) == [flow EXCEPT !.workers[w].at = at]
\* line 1437: open(output_file, "w") truncates the file
OpenFile ==
    /\ \E w \in 1..MaxWorkers :
          /\ flow.workers[w].at = "open"
          /\ flow' = [Worker(w, "write") EXCEPT !.file = <<>>]
    /\ UNCHANGED <<pc, html, uploaded, hint, env, matches, applied, repls, rpc, calls, input>>
\* lines 1437-1438: f.write(generated_html) and the close of the file, which
\* writes the text at the start of the file
WriteFile ==
    /\ \E w \in 1..MaxWorkers :
          /\ flow.workers[w].at = "write"
          /\ flow' = [Worker(w, "return") EXCEPT !.file = Overlay(@, flow.workers[w].generated_html)]
    /\ UNCHANGED <<pc, html, uploaded, hint, env, matches, applied, repls, rpc, calls, input>>
\* lines 1441-1448: the response names the file and carries the text
ReturnSuccess ==
    /\ \E w \in 1..MaxWorkers :
          /\ flow.workers[w].at = "return"
          /\ flow' = [Worker(w, "done") EXCEPT
                          !.workers[w].response =
                              [status |-> 200, content |-> flow.workers[w].generated_html,
                               file_path |-> output_file]]
    /\ UNCHANGED <<pc, html, uploaded, hint, env, matches, applied, repls, rpc, calls, input>>

NextWorkers == OpenFile \/ WriteFile \/ ReturnSuccess
SpecWorkers == InitWorkers /\ [][NextWorkers]_vars

(***************************************************************************)
(* Properties of fill_images                                               *)
(***************************************************************************)
\* a placeholder in a spelling the replacement patterns recognise
HasPlaceholder(s) == Contains(s, DoubleBraces) \/ Contains(s, SingleBrace)
\* the label of match j of the applied pattern (html is the text re.sub works on)
LabelOf(j) == Strip(Group(html, matches[j], 1))
\* repl has returned for the last match entered
Returned == pc = "subst" /\ rpc.at = "idle" /\ Len(repls) > 0
AllFailed == \A c \in 1..Len(calls) : ~calls[c].ok
Count(s, re) == Len(FindAll(s, re, 1))
\* the placeholders of label l in s, in either spelling
Occurrences(s, l) ==
    LET ms == FindAll(s, SingleBrace, 1)
    IN Cardinality({j \in 1..Len(ms) : Strip(Group(s, ms[j], 1)) = l})

\* C1: the output of fill_images contains no placeholder, {{image: ...}} or
\* {image: ...}, whatever spellings the input holds or mixes.
C1_PlaceholderElimination == pc = "done" => ~HasPlaceholder(html)

\* C2: every placeholder of the input whose label has an uploaded source S is
\* resolved to src="S", in any spelling and in documents that mix spellings, and
\* no backend is called for that label.
C2_UploadedPrecedence ==
    /\ \A c \in 1..Len(calls) : calls[c].prompt.label \notin DOMAIN uploaded
    /\ pc = "done" =>
          \A l \in DOMAIN uploaded :
              /\ Count(html, Lits(SrcAttr(uploaded[l]))) >= Occurrences(input, l)
              /\ Occurrences(html, l) = 0

\* C3: no <img> tag of the output has a src value that holds another tag,
\* literal (<img) or entity-escaped (&lt;img).
TagInSrc == Seq_(<<ImgSrc, Star(NotQuote), In({"<img", "&lt;img"})>>)
C3_NoNestedTagInSrc == pc = "done" => ~Contains(html, TagInSrc)

\* C9: a placeholder still present after the main substitution is replaced as a
\* whole (braces and label) by one <img> tag whose src is the fallback URL seeded
\* by its label and whose alt is its label.
WholePlaceholder ==
    Seq_(<<Opt(T("{")), Lits(<<"{", "image:">>), Star(S_), Grp(1, LazyStar(Dot)), Star(S_),
           T("}"), Opt(T("}"))>>)
ExpectedCatchAll(s) ==
    LET ms == FindAll(s, WholePlaceholder, 1)
        R(m) == <<"<img", " ", "src=", "\"", "https://", "picsum.photos/seed/">>
                    \o Strip(Group(s, m, 1))
                    \o <<"/800/500", "\"", " ", "alt=", "\"">> \o Strip(Group(s, m, 1))
                    \o <<"\"", ">">>
    IN SubWith(s, ms, R)
C9_CatchAllReplacesWholePlaceholder ==
    [][pc = "aggressive" /\ HasPlaceholder(html) => html' = ExpectedCatchAll(html)]_vars

\* C5: repl returns a non-empty source for every label and every combination of
\* backend outcomes, and no exception leaves fill_images.
C5_ResolverTotal ==
    /\ pc # "raised"
    /\ \A j \in 1..Len(repls) :
          /\ Len(repls[j]) > 3
          /\ SubSeq(repls[j], 1, 2) = <<"src=", "\"">>
          /\ repls[j][Len(repls[j])] = "\""
          /\ \A k \in 3..(Len(repls[j]) - 1) : repls[j][k] \notin {"", "\""}
\* every available backend was called and failed, by exception or otherwise, and
\* repl has returned
C5_Witness ==
    /\ Returned
    /\ Len(calls) >= 3
    /\ AllFailed
    /\ {calls[c].fn : c \in 1..Len(calls)} = {"flux", "sd", "unsplash"}

\* C6: the backends are consulted in the order FLUX, Stable Diffusion, Unsplash,
\* picsum: a backend is called only after every earlier one failed or was
\* unavailable, and the source returned is that of the first call that succeeded.
Rank(fn) == CASE fn = "flux" -> 1 [] fn = "sd" -> 2 [] fn = "unsplash" -> 3
Unavailable(fn) ==
    CASE fn = "flux" -> ~env.hf \/ ~env.token
      [] fn = "sd" -> ~env.hf
      [] fn = "unsplash" -> ~env.key
ResultsOf(fn) ==
    IF fn = "unsplash" THEN {<<"https://", "images.unsplash.com/", "photo-", "1">>}
    ELSE {<<"data:image/png;base64,", "iVBORw0KGgo=">>, <<"data:image/png;base64,">>}
IsPicsum(r) == Len(r) > 4 /\ SubSeq(r, 3, 4) = <<"https://", "picsum.photos/seed/">>
C7_FallbackDeterminism ==
    /\ (Returned /\ LabelOf(Len(repls)) \notin DOMAIN uploaded /\ AllFailed) =>
          \E size \in {"/400/400", "/800/500"} :
              repls[Len(repls)] = <<"src=", "\"", "https://", "picsum.photos/seed/">>
                                      \o LabelOf(Len(repls)) \o <<size, "\"">>
    /\ pc = "subst" =>
          \A i, j \in 1..Len(repls) :
              (LabelOf(i) = LabelOf(j) /\ IsPicsum(repls[i]) /\ IsPicsum(repls[j]))
                  => repls[i] = repls[j]
\* the same label resolved twice, every backend failing both times
C7_Witness ==
    /\ Returned
    /\ Len(repls) = 2
    /\ LabelOf(1) = LabelOf(2)
    /\ LabelOf(1) \notin DOMAIN uploaded
    /\ IsPicsum(repls[1]) /\ IsPicsum(repls[2])
    /\ Len(calls) = 3 /\ AllFailed

\* C10: the main pass applies exactly one replacement pattern, the first in the
\* listed order that matches the document, replaces every match of it through
\* repl and applies no later pattern.
C10_FirstVariantOnly ==
    /\ (pc = "subst" /\ rpc.at = "idle" /\ repls = <<>>) =>
          /\ applied \in 1..Len(replacement_patterns)
          /\ Contains(html, replacement_patterns[applied])
          /\ \A k \in 1..(applied - 1) : ~Contains(html, replacement_patterns[k])
          /\ Len(matches) = Count(html, replacement_patterns[applied])
    /\ pc = "cleanup" =>
          LET n == NormalizeImgTags(input)
          IN IF applied = 0
             THEN html = n /\ \A k \in 1..Len(replacement_patterns) :
                                 ~Contains(n, replacement_patterns[k])
             ELSE /\ Len(repls) = Count(n, replacement_patterns[applied])
                  /\ html = Assemble(n, FindAll(n, replacement_patterns[applied], 1), repls, 1, 1)
                  /\ \A j \in 1..Len(repls) : SubSeq(repls[j], 1, 2) = <<"src=", "\"">>
\* the src="{{...}}" pattern was applied and a standalone placeholder, which a
\* later pattern matches, is left in the text
C10_Witness ==
    /\ pc = "cleanup"
    /\ applied = 1
    /\ Len(repls) >= 1
    /\ Contains(html, replacement_patterns[5])

(***************************************************************************)
(* Properties of validate_and_repair_html and of the handlers              *)
(***************************************************************************)
\* C4: validate_and_repair_html is idempotent: applied to its own output it
\* returns that output unchanged (no further wrapper, no further closing tag
\* removed).
C4_RepairIdempotent == [][pc = "once" => html' = html]_vars

\* C8: /generate and /update run the stages in the order normalize, substitute,
\* repair; repair never runs before substitution has finished, and the content
\* of a successful response is what the repair stage returned.
PipelineStages == <<"normalize", "substitute", "repair">>
C8_PipelineOrder ==
    /\ \E n \in 0..Len(PipelineStages) : flow.log = SubSeq(PipelineStages, 1, n)
    /\ flow.response.status = 200 =>
          /\ flow.log = PipelineStages
          /\ flow.response.content = flow.repaired
\* /update has answered with a page whose placeholder was substituted and whose
\* chip was wrapped by the repair
C8_Witness ==
    /\ pc = "responded"
    /\ flow.kind = "update"
    /\ flow.response.status = 200
    /\ flow.log = PipelineStages
    /\ Contains(flow.response.content, Lits(ChipsOpen))
    /\ Contains(flow.response.content, Lits(<<"src=", "\"", "https://", "picsum.photos/seed/">>))


(***************************************************************************)
(* Properties of fill_images followed by validate_and_repair_html          *)
(***************************************************************************)
\* no double-brace or single-brace placeholder, wrapped in src="..." or not,
\* and no image tag the normalizer rewrites
NoPlaceholderIn(s) ==
    /\ ~Contains(s, DoubleBraces)
    /\ ~Contains(s, SingleBrace)
    /\ NormalizeImgTags(s) = s

\* C11: for a text without double-brace or single-brace placeholder and
\* without malformed image tag, fill_images returns the text unchanged and
\* calls no image backend (repl is never entered), also when the text holds
\* "image:" elsewhere, as in a CSS background-image declaration.
C11_NoPlaceholderNoOp ==
    (NoPlaceholderIn(input) /\ pc # "repaired")
        => /\ html = input
           /\ matches = <<>>
           /\ calls = <<>>
           /\ rpc = Idle

Blank(s) == Strip(s) = <<>>
\* C12: for an empty or whitespace-only input, fill_images followed by
\* validate_and_repair_html returns the input as it is (not trimmed), raises
\* nothing and calls no image backend.
C12_BlankShortCircuit ==
    Blank(input)
        => /\ html = input
           /\ pc # "raised"
           /\ matches = <<>>
           /\ calls = <<>>
           /\ rpc = Idle
           /\ pc = "repaired" => flow.repaired = input
C12_Witness == pc = "repaired" /\ Blank(input) /\ input # <<>>

\* the alt texts of the malformed tags and the fixed label of line 854
AltLabels == {<<"a">>, <<"b">>, <<"restaurant-interior">>}
\* the labels of the placeholders of a text
LabelsIn(s) ==
    LET ms == FindAll(s, DoubleBraces, 1)
    IN {Strip(Group(s, ms[j], 1)) : j \in 1..Len(ms)}
HoldsUrl(label) == \E j \in 1..Len(label) : label[j] \in {"http://", "https://"}

\* C19: every malformed image tag the normalizer rewrites becomes
\* {{image: LABEL}} with LABEL the alt text of the tag, or restaurant-interior
\* when no alt text is recoverable; LABEL is never the URL of the tag.
C19_NormalizerLabelIsAlt ==
    pc = "select"
        => \A label \in LabelsIn(html) : label \in AltLabels /\ ~HoldsUrl(label)


(***************************************************************************)
(* Properties of validate_and_repair_html                                  *)
(***************************************************************************)
\* the number of </div> lexemes a text ends in
RECURSIVE TrailingClosings(_)
TrailingClosings(s) ==
    IF Len(s) > 0 /\ s[Len(s)] = "</div>" THEN 1 + TrailingClosings(SubSeq(s, 1, Len(s) - 1))
    ELSE 0

\* C15: for an input that ends in five consecutive </div> tags, the output
\* of validate_and_repair_html ends in exactly two consecutive </div> tags.
C15_FiveClosingsBecomeTwo ==
    (pc = "once" /\ TrailingClosings(input) = 5) => TrailingClosings(html) = 2

ChipOpenTok == "<span class=\"px-4 py-2 bg-gray-100"
WrapperTok == ChipsOpen[1]
\* the maximal runs of chips separated only by whitespace, counted by a scan:
\* at is "out", "chip" (inside a chip) or "run" (after a chip, whitespace only)
RECURSIVE RunsFrom(_, _, _)
RunsFrom(s, i, at) ==
    IF i > Len(s) THEN 0
    ELSE IF at = "chip"
    THEN RunsFrom(s, i + 1, IF s[i] = "</span>" THEN "run" ELSE "chip")
    ELSE IF s[i] = ChipOpenTok
    THEN (IF at = "run" THEN 0 ELSE 1) + RunsFrom(s, i + 1, "chip")
    ELSE RunsFrom(s, i + 1, IF at = "run" /\ s[i] \in WS THEN "run" ELSE "out")
ChipRuns(s) == RunsFrom(s, 1, "out")
\* the chips of a text, in their order
ChipsIn(s) ==
    LET ms == FindAll(s, ChipRe, 1) IN [j \in 1..Len(ms) |-> SubSeq(s, ms[j].start, ms[j].end - 1)]
\* a wrapper, the chips of one run separated by whitespace, and its closing tag
WrappedRun ==
    Seq_(<<Lits(ChipsOpen), Plus(Grp(1, Seq_(<<Star(S_), ChipRe, Star(S_)>>))), CloseDiv>>)
\* each run stands in one wrapper and each wrapper holds one whole run
WrappedOnce(in, out) ==
    /\ Count(out, T(WrapperTok)) = ChipRuns(in)
    /\ Count(out, WrappedRun) = ChipRuns(in)
    /\ ChipRuns(out) = ChipRuns(in)
    /\ ChipsIn(out) = ChipsIn(in)
    /\ ChipsIn(Delete(out, WrappedRun)) = <<>>

IsFenced(s) ==
    \E o \in FenceOpens :
        /\ Len(s) >= Len(o) + Len(FenceCloseLine)
        /\ SubSeq(s, 1, Len(o)) = o
        /\ SubSeq(s, Len(s) - Len(FenceCloseLine) + 1, Len(s)) = FenceCloseLine
InnerOf(s) ==
    LET o == CHOOSE o \in FenceOpens : SubSeq(s, 1, Len(o)) = o
    IN SubSeq(s, Len(o) + 1, Len(s) - Len(FenceCloseLine))
FencedParagraph == Fenced(<<Fence, "html", "\n">>, Paragraph)

C18_AllCardsInOneGrid ==
    pc = "once"
        => \A k \in 1..2 :
              Contains(input, Lits(ProjectsOf(k)))
                  => Contains(html, Lits(GridOpen \o Cards(k) \o <<"</div>">>))


(***************************************************************************)
(* Properties of the call of the model in /generate and /update            *)
(***************************************************************************)
\* C13: whenever the model returns empty or whitespace-only content, by the
\* stream or by llm.invoke (as a string or as a message object), neither
\* fill_images nor validate_and_repair_html runs on that content and the
\* response, once given, is an error.
C13_EmptyContentNeverProcessed ==
    (flow.llm.answered /\ Blank(flow.llm.content))
        => /\ flow.log = <<>>
           /\ pc \in {"check", "llm", "responded"}
           /\ pc = "responded" => flow.response.status = 500

\* C14 as stated: when the stream fails a single llm.invoke is attempted for
\* the request; when it raises, the request is answered with an error, the
\* pipeline has not run and no further call of the provider follows.
C14_SingleFallbackPerRequest ==
    /\ flow.llm.invokes <= 1
    /\ flow.llm.failed =>
          /\ pc = "responded"
          /\ flow.response.status = 500
          /\ flow.log = <<>>
\* C14, per failed stream: every failed stream of a request is followed by
\* exactly one llm.invoke (a request of /generate streams once per attempt, so
\* it can see max_retries of them); when llm.invoke raises, the request is
\* answered with an error at once, the pipeline has not run in that attempt and
\* no further call of the provider follows (no step leaves the answered
\* position).
C14_OneFallbackPerFailedStream ==
    /\ flow.llm.invokes = flow.llm.fallbacks - (IF pc = "invoke" THEN 1 ELSE 0)
    /\ flow.llm.fallbacks <= flow.attempt + 1
    /\ flow.llm.fallbacks <= max_retries
    /\ flow.kind = "update" => flow.llm.fallbacks <= 1
    /\ flow.llm.failed =>
          /\ pc = "responded"
          /\ flow.response.status = 500
          /\ flow.log = <<>>
C14_Witness ==
    /\ pc = "responded"
    /\ flow.llm.failed
    /\ flow.llm.invokes = max_retries
    /\ flow.response.status = 500

\* the chunks but the last
Front(cs) == SubSeq(cs, 1, Len(cs) - 1)
\* C20: while streaming, once the accumulated text holds </html> (in any
\* case) no further chunk is requested or appended, and the text handed on is
\* the concatenation of the chunks received, up to and including the chunk
\* that completed the closing tag.
C20_EarlyStreamTermination ==
    /\ pc = "stream" => ~HasClosingRoot(Join(flow.llm.chunks))
    /\ (pc = "check" /\ flow.llm.via = "stream") =>
          /\ html = Join(flow.llm.chunks)
          /\ HasClosingRoot(html) =>
                /\ flow.llm.chunks # <<>>
                /\ ~HasClosingRoot(Join(Front(flow.llm.chunks)))
C20_Witness ==
    /\ pc = "check"
    /\ flow.llm.via = "stream"
    /\ flow.llm.pending # <<>>
    /\ Len(flow.llm.chunks) > 1
    /\ HasClosingRoot(html)
    /\ ~HasClosingRoot(flow.llm.chunks[Len(flow.llm.chunks)])

(***************************************************************************)
(* Properties of validate_and_repair_html: what it leaves alone            *)
(***************************************************************************)
\* texts whose cards, skill bars and chips stand in their containers already
AlreadyWrapped == ConcatsOf({WrappedProjects, WrappedSkills, WrappedChip}, MaxRepairFrags) \ {<<>>}

\* C21: project cards already enclosed in a grid wrapper, skill-bar rows
\* already enclosed in a spacing wrapper and chip spans already enclosed in a
\* flex-wrap container are left unchanged by validate_and_repair_html.
C21_WrapsOnlyWhatLacksContainer ==
    (pc = "once" /\ input \in AlreadyWrapped) => html = input

\* four </div> in a row
HasFourClosings(s) ==
    \E j \in 1..(Len(s) - MinClosings + 1) : \A k \in 0..(MinClosings - 1) : s[j + k] = "</div>"
\* a non-blank text without fence, without Featured Projects or Skills section
\* that the patterns of lines 788 and 796 match, without chip, without repeated
\* container opener and without a run of four </div>
NonMatching(s) ==
    /\ ~Blank(s)
    /\ \A j \in 1..Len(s) : s[j] \notin {Fence, ChipOpenTok}
    /\ ~Contains(s, GridRe)
    /\ ~Contains(s, SkillsRe)
    /\ ~Contains(s, ContainerRe)
    /\ ~HasFourClosings(s)

\* C22: for a non-matching text validate_and_repair_html returns the text with
\* only its leading and trailing whitespace removed.
C22_SilentNoOp ==
    (pc = "once" /\ NonMatching(input)) => html = Strip(input)
\* a card followed by its closing part, which the pattern of line 811 matches
\* and rewrites to itself
C22_Witness ==
    /\ pc = "once"
    /\ input = Card \o CardTail
    /\ Contains(input, CardsRe)
    /\ html = input

\* the lexemes that open a <div>
DivOpenToks == (OpenToks \ {ChipOpenTok}) \cup WrapToks
\* the nesting depth after each lexeme, starting from depth d; -1 once a
\* closing tag has no opener
RECURSIVE DepthFrom(_, _, _)
DepthFrom(s, i, d) ==
    IF i > Len(s) \/ d < 0 THEN d
    ELSE DepthFrom(s, i + 1, IF s[i] \in DivOpenToks THEN d + 1
                             ELSE IF s[i] = "</div>" THEN d - 1 ELSE d)
\* opening and closing <div> tags are balanced and properly nested
Balanced(s) == DepthFrom(s, 1, 0) = 0

\* C26 as stated: for every input whose <div> and </div> tags are balanced and
\* properly nested, the output of validate_and_repair_html is balanced too.
C26_DivBalancePreserved ==
    (pc = "once" /\ Balanced(input)) => Balanced(html)

(***************************************************************************)
(* Properties of fill_images: backend calls and the attributes it emits    *)
(***************************************************************************)
\* the calls of backend fn made for the current match
CallsOf(fn) == Cardinality({c \in 1..Len(calls) : calls[c].fn = fn})

\* C27: during the resolution of one placeholder occurrence, for profile-like
\* and other labels alike, FLUX, Stable Diffusion and Unsplash are each called
\* at most once, also when all of them fail.
C27_EachBackendOncePerPlaceholder ==
    \A fn \in {"flux", "sd", "unsplash"} : CallsOf(fn) <= 1

\* the src=" at position j of s stands inside an <img tag: an <img before it
\* with no > in between
InsideImg(s, j) ==
    \E i \in 1..(j - 1) : s[i] = "<img" /\ \A k \in i..j : s[k] # ">"
\* C28: every src="..." attribute of the output of fill_images lies inside an
\* <img ...> tag of the output, for standalone placeholders and for image tags
\* the normalizer rewrites to a placeholder.
C28_NoBareSrc ==
    pc = "done" =>
        \A j \in 1..Len(html) : html[j] = "src=" => InsideImg(html, j)

(***************************************************************************)
(* Properties of the /generate handler                                     *)
(***************************************************************************)
\* an <img tag whose src is the uploaded profile source
ProfileImg == Seq_(<<T("<img"), Star(NotGt), Lits(SrcAttr(UploadSrc))>>)

\* C25: for a portfolio request with an uploaded profile image and generated
\* HTML without profile placeholder, every Unsplash-hosted <img> of the
\* generated HTML (with or without a file extension in its URL, in any mix)
\* ends, after the pipeline, as an <img> tag whose src is the uploaded source.
C25_ProfileInjection ==
    (/\ pc = "respond"
     /\ flow.kind = "generate"
     /\ WantsProfile
     /\ ~HasProfilePlaceholder(flow.llm.content)
     /\ Contains(flow.llm.content, UnsplashImgRe))
        => /\ Count(html, ProfileImg) = Count(flow.llm.content, UnsplashImgRe)
           /\ ~Contains(html, UnsplashImgRe)

\* C30: the text handed to the pipeline after a streaming invocation is the
\* concatenation of the chunks of exactly one run of the stream, each chunk
\* once and in arrival order; chunks of a run abandoned on a RuntimeError are
\* not part of it.
C30_OneRunNoDuplicates ==
    (pc = "check" /\ flow.llm.via = "stream")
        => /\ html = Join(flow.llm.chunks)
           /\ \E st \in Streams : \E n \in 0..Len(st.chunks) :
                 flow.llm.chunks = SubSeq(st.chunks, 1, n)

\* the attempt changes only by a step from the first to the second, taken
\* after an empty answer or after an exception of the processing
SecondAttemptOnlyAfterFailure ==
    [][flow'.attempt # flow.attempt
          => /\ flow.attempt = 0
             /\ flow'.attempt = 1
             /\ (pc = "check" /\ Blank(html)) \/ pc = "respond"]_vars
\* a measure of what a request still has to do: the attempts left, then the
\* position in the attempt, then the chunks, runs, matches and backend calls
\* left at that position
PcRank ==
    CASE pc = "llm" -> 12 [] pc = "stream" -> 11 [] pc = "invoke" -> 10 [] pc = "check" -> 9
      [] pc = "prepare" -> 8 [] pc = "normalize" -> 7 [] pc = "select" -> 6 [] pc = "subst" -> 5
      [] pc = "cleanup" -> 4 [] pc = "aggressive" -> 3 [] pc = "done" -> 2 [] pc = "respond" -> 1
      [] OTHER -> 0
AtRank ==
    CASE rpc.at = "idle" -> 9
      [] rpc.at = "flux" -> 8
      [] rpc.at = "sd" -> IF rpc.phase = 1 THEN 7 ELSE 3
      [] rpc.at = "unsplash" -> IF rpc.phase = 1 THEN 6 ELSE 2
      [] rpc.at = "back" -> IF rpc.phase = 1 THEN 5 ELSE 1
InnerRank ==
    CASE pc = "stream" -> (2 - flow.llm.runs) * 10 + Len(flow.llm.pending)
      [] pc = "subst" -> (Len(matches) - Len(repls)) * 10 + AtRank
      [] OTHER -> 0
Remaining == (max_retries - flow.attempt) * 100000 + PcRank * 1000 + InnerRank
\* every step of a request brings it nearer to its end
EveryStepAdvances == [][Remaining' < Remaining /\ Remaining' >= 0]_vars
\* the loop is never left without a return statement, and a request that has
\* ended carries a success or an error
NeverWithoutResponse ==
    /\ pc # "exhausted"
    /\ pc = "responded" => flow.response.status \in {200, 500}

\* the stages completed by a request so far: those of the attempts it
\* abandoned, then those of the current attempt
CompletedStages == flow.earlier \o flow.log
TimesCompleted(stage) ==
    Cardinality({i \in 1..Len(CompletedStages) : CompletedStages[i] = stage})
\* C23 as stated: at most two generation attempts, a second one only after an
\* empty answer or an exception; fill_images and validate_and_repair_html each
\* complete at most once per request; every path ends, and ends with a
\* response.
C23_PipelineOncePerRequest ==
    /\ [](flow.attempt + 1 <= 2)
    /\ SecondAttemptOnlyAfterFailure
    /\ [](TimesCompleted("substitute") <= 1 /\ TimesCompleted("repair") <= 1)
    /\ EveryStepAdvances
    /\ []NeverWithoutResponse
\* C23, per attempt: at most two generation attempts, a second one only after
\* an empty answer or an exception; in each attempt fill_images and
\* validate_and_repair_html each complete at most once, in this order (so at
\* most twice per request, the second time when the first attempt raised after
\* the repair); every path ends, and ends with a response.
C23_PipelineOncePerAttempt ==
    /\ [](flow.attempt + 1 <= 2)
    /\ SecondAttemptOnlyAfterFailure
    /\ [](\E n \in 0..Len(PipelineStages) : flow.log = SubSeq(PipelineStages, 1, n))
    /\ [](TimesCompleted("substitute") <= 2 /\ TimesCompleted("repair") <= 2)
    /\ EveryStepAdvances
    /\ []NeverWithoutResponse
\* the second attempt of /generate has run the pipeline and answered
C23_Witness ==
    /\ pc = "responded"
    /\ flow.kind = "generate"
    /\ flow.attempt = 1
    /\ flow.log = PipelineStages
    /\ flow.response.status = 200

(***************************************************************************)
(* Properties of the uploaded-image map                                    *)
(***************************************************************************)
\* the positions of the image files of a list, in upload order
RECURSIVE ImagesOf(_, _)
ImagesOf(files, i) ==
    IF i > Len(files) THEN <<>>
    ELSE (IF files[i] = "image" THEN <<i>> ELSE <<>>) \o ImagesOf(files, i + 1)
Holds(label, src) == label \in DOMAIN uploaded /\ uploaded[label] = src

\* C24: without a separately supplied profile image the first image file among
\* the reference files is stored under profile and the k-th image file under
\* image-k (k >= 2), whatever other files precede or separate them; a
\* separately supplied profile image is never replaced by a reference file.
C24_UploadLabelling ==
    pc = "labelled" =>
        LET imgs == ImagesOf(flow.files, 1)
        IN IF flow.profile = [l \in {} |-> <<>>]
           THEN /\ Len(imgs) > 0 => Holds(<<"profile">>, DataUrlOf(imgs[1]))
                /\ \A k \in 2..Len(imgs) : Holds(ImageLabel(k), DataUrlOf(imgs[k]))
           ELSE Holds(<<"profile">>, flow.profile[<<"profile">>])

(***************************************************************************)
(* Properties of the file written by /generate                             *)
(***************************************************************************)
\* C29: when a /generate request returns success, the file at the returned
\* file_path holds exactly the content returned in that response, also when
\* other /generate requests are served at the same time.
C29_FileHoldsReturnedContent ==
    [][\A w \in 1..MaxWorkers :
          (flow.workers[w].response.status = 0 /\ flow'.workers[w].response.status = 200)
              => /\ flow'.workers[w].response.file_path = output_file
                 /\ flow'.file = flow'.workers[w].response.content]_vars

====
